---- MODULE Spec2Model ----
(***************************************************************************)
(* Model of src/main.js: the solar-system scene, its click-to-focus        *)
(* controller, the animation loop (tick) and the resize handler.           *)
(*                                                                         *)
(* Numbers.  JavaScript numbers are modelled by exact fixed-point values:  *)
(*   timeScale                 in units of 1/Scale        (Scale = "1.0")  *)
(*   orbitRotation[p]          in units of 0.001/Scale rad                 *)
(*   starRotation              in units of 0.0001/Scale rad                *)
(*   planetSpin, moonRotation  in units of 0.001 rad                       *)
(* Scale is 10 * 20^MaxTicks, so that MaxTicks successive interpolations   *)
(* by 0.05 = 1/20 towards 0.1 or 1.0 are computed without rounding.        *)
(*                                                                         *)
(* A Vector3 is kept symbolically as the point of the orbital plane at     *)
(* polar coordinates (dist, angle) plus a cartesian offset <<x, y, z>>.    *)
(***************************************************************************)
EXTENDS Integers, Sequences, FiniteSets, TLC

(* ------------------------------ bounds --------------------------------- *)
MaxTicks == 4
MaxDepth == 2
MaxHits == 2
MaxW == 2
MaxH == 2

(* ------------------------- static configuration ------------------------ *)
RECURSIVE Pow(_, _)
Pow(b, n) == IF n = 0 THEN 1 ELSE b * Pow(b, n - 1)

Scale == 10 * Pow(20, MaxTicks)

NULL == "null"

planets == <<"Mercury", "Earth", "Jupiter">>

PlanetSet == {planets[i] : i \in 1..Len(planets)}

planetDistance == [p \in PlanetSet |->
                     CASE p = "Mercury" -> 8 [] p = "Earth" -> 14 [] p = "Jupiter" -> 22]

planetSpeed == [p \in PlanetSet |->
                  CASE p = "Mercury" -> 12 [] p = "Earth" -> 8 [] p = "Jupiter" -> 5]

moonSpeeds == [p \in PlanetSet |->
                 CASE p = "Mercury" -> <<40>> [] p = "Earth" -> <<30, 20>> [] p = "Jupiter" -> <<15>>]

Moons == {<<p, i>> : p \in PlanetSet, i \in 1..2} \ {<<"Mercury", 2>>, <<"Jupiter", 2>>}

moonSpeed(m) == moonSpeeds[m[1]][m[2]]

starSpeed == 1

spinSpeed == 10

focusedTarget == Scale \div 10

freeTarget == Scale

lerpNum == 1

lerpDen == 20

(* ------------------------------ vectors -------------------------------- *)
Vector3(d, a, c) == [polar |-> [dist |-> d, angle |-> a], cart |-> c]

Origin == Vector3(0, 0, <<0, 0, 0>>)

initialCameraPosition == Vector3(0, 0, <<25, 20, 40>>)

jumpOffset == <<5, 3, 5>>

VecAdd(v, c) == [v EXCEPT !.cart = <<v.cart[1] + c[1], v.cart[2] + c[2], v.cart[3] + c[3]>>]

(* ------------------------------- state --------------------------------- *)
VARIABLES focusedPlanet, timeScale, backButton, backDisplay,
          cameraPosition, controlsTarget,
          starRotation, orbitRotation, planetSpin, moonRotation,
          windowSize, cameraAspect, rendererSize, composerSize,
          loaded, resizeListener, rafPending, ticks, frames, event

vars == <<focusedPlanet, timeScale, backButton, backDisplay,
          cameraPosition, controlsTarget,
          starRotation, orbitRotation, planetSpin, moonRotation,
          windowSize, cameraAspect, rendererSize, composerSize,
          loaded, resizeListener, rafPending, ticks, frames, event>>

focusVars == <<focusedPlanet, backDisplay, cameraPosition, controlsTarget>>

motionVars == <<timeScale, starRotation, orbitRotation, planetSpin, moonRotation>>

viewVars == <<cameraAspect, rendererSize, composerSize>>

loopVars == <<rafPending, ticks, frames>>

(* ------------------------------ helpers -------------------------------- *)
RECURSIVE GCD(_, _)
GCD(a, b) == IF b = 0 THEN a ELSE GCD(b, a % b)

\* window.innerWidth / window.innerHeight as a fraction in lowest terms
Aspect(w, h) == <<w \div GCD(w, h), h \div GCD(w, h)>>

WindowSizes == (1..MaxW) \X (1..MaxH)

\* An interpolation that moves away from y instead of towards it
lerpOvershoot(x, y, tn, td) == ((td + tn) * x - tn * y) \div td

\* THREE.MathUtils.lerp(x, y, t) = (1 - t) * x + t * y, with t = tn / td
lerp(x, y, tn, td) == ((td - tn) * x + tn * y) \div td

\* Object3D.getWorldPosition of a planet mesh: the point at the planet's
\* distance on the orbit circle, turned by its orbit group's rotation.y
getWorldPosition(p, rot) == Vector3(planetDistance[p], rot[p], <<0, 0, 0>>)

\* What a ray can meet: at most MaxHits planet meshes, at distinct depths
HitSets == {h \in SUBSET (PlanetSet \X (1..MaxDepth)) :
              /\ Cardinality(h) <= MaxHits
              /\ \A a \in h : \A b \in h : (a[1] = b[1] \/ a[2] = b[2]) => a = b}

\* Raycaster.intersectObjects: the intersections sorted by distance, nearest first
RECURSIVE intersectObjects(_)
intersectObjects(h) ==
  IF h = {} THEN <<>>
  ELSE LET n == CHOOSE a \in h : \A b \in h : a[2] <= b[2]
       IN <<[object |-> n[1], distance |-> n[2]]>> \o intersectObjects(h \ {n})

NoEvent == [type |-> "none", onBack |-> FALSE, intersects |-> <<>>, outcome |-> "ok"]

(* ------------------------------- Init ---------------------------------- *)
\* The back element's initial visibility is set by the page's markup:
\* hidden until a planet is focused.
InitialBackDisplay == "none"

Init ==
  /\ focusedPlanet = NULL
  /\ timeScale = Scale
  /\ backButton \in BOOLEAN
  /\ backDisplay = InitialBackDisplay
  /\ cameraPosition = initialCameraPosition
  /\ controlsTarget = Origin
  /\ starRotation = 0
  /\ orbitRotation = [p \in PlanetSet |-> 0]
  /\ planetSpin = [p \in PlanetSet |-> 0]
  /\ moonRotation = [m \in Moons |-> 0]
  /\ windowSize \in WindowSizes
  /\ cameraAspect = Aspect(windowSize[1], windowSize[2])
  /\ rendererSize = windowSize
  /\ composerSize = windowSize
  /\ loaded = FALSE
  /\ resizeListener = FALSE
  /\ rafPending = 0
  /\ ticks = 0
  /\ frames = 0
  /\ event = NoEvent

(* --------------------------- click listeners --------------------------- *)
Focus == [focusedPlanet |-> focusedPlanet, backDisplay |-> backDisplay,
          cameraPosition |-> cameraPosition, controlsTarget |-> controlsTarget]

\* A listener that takes the farthest intersection instead of the nearest
ClickListenerFarthest(s, intersects) ==
  IF Len(intersects) > 0
  THEN [s EXCEPT !.focusedPlanet = intersects[Len(intersects)].object,
                 !.backDisplay = IF backButton THEN "block" ELSE @,
                 !.cameraPosition =
                    VecAdd(getWorldPosition(intersects[Len(intersects)].object, orbitRotation),
                           jumpOffset)]
  ELSE s

\* A listener for which a click on empty space drops the focus
ClickListenerMissClears(s, intersects) ==
  IF Len(intersects) > 0
  THEN [s EXCEPT !.focusedPlanet = intersects[1].object,
                 !.backDisplay = IF backButton THEN "block" ELSE @,
                 !.cameraPosition =
                    VecAdd(getWorldPosition(intersects[1].object, orbitRotation), jumpOffset)]
  ELSE [s EXCEPT !.focusedPlanet = NULL]

\* window 'click' listener, given the raycaster's result
ClickListener(s, intersects) ==
  IF Len(intersects) > 0
  THEN [s EXCEPT !.focusedPlanet = intersects[1].object,
                 !.backDisplay = IF backButton THEN "block" ELSE @,
                 !.cameraPosition =
                    VecAdd(getWorldPosition(intersects[1].object, orbitRotation), jumpOffset)]
  ELSE s

\* A back listener that forgets to hide the element
BackListenerKeepsShown(s) ==
  [s EXCEPT !.focusedPlanet = NULL,
            !.controlsTarget = Origin]

\* backButton 'click' listener
BackListener(s) ==
  [s EXCEPT !.focusedPlanet = NULL,
            !.backDisplay = "none",
            !.controlsTarget = Origin]

SetFocus(s) ==
  /\ focusedPlanet' = s.focusedPlanet
  /\ backDisplay' = s.backDisplay
  /\ cameraPosition' = s.cameraPosition
  /\ controlsTarget' = s.controlsTarget

\* A click somewhere on the page other than the back element
WindowClick(h) ==
  /\ loaded
  /\ SetFocus(ClickListener(Focus, intersectObjects(h)))
  /\ event' = [type |-> "click", onBack |-> FALSE,
               intersects |-> intersectObjects(h), outcome |-> "ok"]
  /\ UNCHANGED <<backButton, motionVars, windowSize, viewVars,
                 loaded, resizeListener, loopVars>>

\* A click on the (visible) back element: its own listener runs, then the
\* event bubbles to the window listener, whose ray goes through the point
\* of the screen where the element is
BackClick(h) ==
  /\ loaded
  /\ backButton
  /\ backDisplay = "block"
  /\ SetFocus(ClickListener(BackListener(Focus), intersectObjects(h)))
  /\ event' = [type |-> "click", onBack |-> TRUE,
               intersects |-> intersectObjects(h), outcome |-> "ok"]
  /\ UNCHANGED <<backButton, motionVars, windowSize, viewVars,
                 loaded, resizeListener, loopVars>>

(* ------------------------------ the loop ------------------------------- *)
Outcomes == {"ok", "updateThrows", "renderThrows"}

\* line 126: the value timeScale is driven towards
targetScaleOf(fp) == IF fp # NULL THEN focusedTarget ELSE freeTarget

\* An orbit advance that ignores timeScale
orbitStepUnscaled(p, ts) == planetSpeed[p] * Scale

\* line 133: the advance of a planet's orbit group in one tick
orbitStep(p, ts) == planetSpeed[p] * ts

\* A moon advance slowed down with the planets
moonStepScaled(m, ts) == (moonSpeed(m) * ts) \div Scale

\* line 135: the advance of a moon's orbit group in one tick
moonStep(m, ts) == moonSpeed(m)

\* A look-target taken from the orbit angles before this tick's advance
trackTargetStale(fp, before, after, target) ==
  IF fp # NULL THEN getWorldPosition(fp, before) ELSE target

\* lines 138-144: the look-target follows the focused planet, whose world
\* position is read after the orbit groups have been advanced
trackTarget(fp, before, after, target) ==
  IF fp # NULL THEN getWorldPosition(fp, after) ELSE target

\* A frame request made whether or not the rest of tick succeeds
requestAnimationFrameAlways(pend, outcome) == pend + 1

\* line 148: the frame requests pending once tick is over; the request is
\* tick's last statement, so a tick that throws makes none
requestAnimationFrame(pend, outcome) == IF outcome = "ok" THEN pend + 1 ELSE pend

\* The body of tick; pend is the number of frame requests still pending
\* when it starts, outcome says whether controls.update or composer.render
\* throws
tick(pend, outcome) ==
  LET targetScale == targetScaleOf(focusedPlanet)
      ts == lerp(timeScale, targetScale, lerpNum, lerpDen)
      rot == [p \in PlanetSet |-> orbitRotation[p] + orbitStep(p, ts)]
  IN /\ timeScale' = ts
     /\ starRotation' = starRotation + starSpeed * ts
     /\ orbitRotation' = rot
     /\ planetSpin' = [p \in PlanetSet |-> planetSpin[p] + spinSpeed]
     /\ moonRotation' = [m \in Moons |-> moonRotation[m] + moonStep(m, ts)]
     /\ controlsTarget' = trackTarget(focusedPlanet, orbitRotation, rot, controlsTarget)
     /\ frames' = IF outcome = "ok" THEN frames + 1 ELSE frames
     /\ rafPending' = requestAnimationFrame(pend, outcome)
     /\ ticks' = ticks + 1
     /\ event' = [type |-> "tick", onBack |-> FALSE, intersects |-> <<>>,
                  outcome |-> outcome]
     /\ UNCHANGED <<focusedPlanet, backButton, backDisplay, cameraPosition,
                    windowSize, viewVars>>

\* The end of the script: the first call of tick, then the registration of
\* the resize listener, which an exception in tick skips
Load(outcome) ==
  /\ ~loaded
  /\ tick(0, outcome)
  /\ loaded' = TRUE
  /\ resizeListener' = (outcome = "ok")

\* An animation frame: the host runs one requested tick
Frame(outcome) ==
  /\ loaded
  /\ rafPending > 0
  /\ ticks < MaxTicks
  /\ tick(rafPending - 1, outcome)
  /\ UNCHANGED <<loaded, resizeListener>>

(* ------------------------------- resize -------------------------------- *)
\* A resize listener that computes height / width
ResizeListenerInverted(w, h) ==
  /\ cameraAspect' = Aspect(h, w)
  /\ rendererSize' = <<w, h>>
  /\ composerSize' = <<w, h>>

\* window 'resize' listener
ResizeListener(w, h) ==
  /\ cameraAspect' = Aspect(w, h)
  /\ rendererSize' = <<w, h>>
  /\ composerSize' = <<w, h>>

\* The window takes the size (w, h) and the host dispatches 'resize'
Resize(w, h) ==
  /\ loaded
  /\ windowSize' = <<w, h>>
  /\ IF resizeListener THEN ResizeListener(w, h) ELSE UNCHANGED viewVars
  /\ event' = [type |-> "resize", onBack |-> FALSE, intersects |-> <<>>,
               outcome |-> "ok"]
  /\ UNCHANGED <<focusVars, backButton, motionVars, loaded, resizeListener, loopVars>>

(* ---------------------------- specification ---------------------------- *)
Next ==
  \/ \E o \in Outcomes : Load(o)
  \/ \E o \in Outcomes : Frame(o)
  \/ \E h \in HitSets : WindowClick(h)
  \/ \E h \in HitSets : BackClick(h)
  \/ \E s \in WindowSizes : Resize(s[1], s[2])

Spec == Init /\ [][Next]_vars

(* ------------------------------- claims -------------------------------- *)
\* The planet of the intersection with the least depth
Nearest(intersects) ==
  LET i == CHOOSE j \in 1..Len(intersects) :
             \A k \in 1..Len(intersects) : intersects[j].distance <= intersects[k].distance
  IN intersects[i].object

IsTick(e) == e.type = "tick"

IsClick(e) == e.type = "click"

IsHit(e) == IsClick(e) /\ Len(e.intersects) > 0

IsMiss(e) == IsClick(e) /\ Len(e.intersects) = 0

C2_TargetTracksFocus ==
  [][(IsTick(event') /\ frames' = frames + 1 /\ focusedPlanet # NULL) =>
       /\ controlsTarget'.polar = [dist |-> planetDistance[focusedPlanet],
                                   angle |-> orbitRotation'[focusedPlanet]]
       /\ controlsTarget'.cart = <<0, 0, 0>>
       /\ orbitRotation'[focusedPlanet] > orbitRotation[focusedPlanet]]_vars

C2_Witness ==
  /\ IsTick(event)
  /\ event.outcome = "ok"
  /\ frames >= 2
  /\ focusedPlanet # NULL
  /\ controlsTarget.polar.angle = orbitRotation[focusedPlanet]
  /\ controlsTarget.polar.angle > 0

\* C3: a click on the back element while a planet is focused leaves, once
\* the element's listener and the window listener have both run, no planet
\* focused, the element hidden and the look-target at the origin.
C3_BackClears ==
  [][(IsClick(event') /\ event'.onBack /\ focusedPlanet # NULL) =>
       /\ focusedPlanet' = NULL
       /\ backDisplay' = "none"
       /\ controlsTarget' = Origin]_vars

\* C4: every tick replaces timeScale by timeScale + (target - timeScale) *
\* 0.05, target being 0.1 if a planet is focused when the tick starts and
\* 1.0 otherwise; the star field and the planets' orbits advance by their
\* speed times the new value; no other callback changes timeScale.
C4_TimeScaleUpdate ==
  [][/\ IsTick(event') =>
          /\ 20 * (timeScale' - timeScale) =
               (IF focusedPlanet # NULL THEN Scale \div 10 ELSE Scale) - timeScale
          /\ starRotation' = starRotation + timeScale'
          /\ \A p \in PlanetSet :
               orbitRotation'[p] = orbitRotation[p] + planetSpeed[p] * timeScale'
     /\ ~IsTick(event') => timeScale' = timeScale]_vars

C4_Witness ==
  /\ IsTick(event)
  /\ ticks >= 2
  /\ focusedPlanet # NULL
  /\ timeScale < Scale
  /\ orbitRotation["Earth"] < ticks * planetSpeed["Earth"] * Scale

\* C5: timeScale is always within [0.1, 1.0].
C5_TimeScaleRange == 10 * timeScale >= Scale /\ timeScale <= Scale

C5_Witness ==
  /\ ticks = MaxTicks
  /\ focusedPlanet = NULL
  /\ IsTick(event)
  /\ 10 * timeScale > Scale
  /\ timeScale < Scale

\* C6: each tick advances every moon's orbit group by the moon's
\* configured speed, whatever the focus and timeScale are, and nothing
\* else moves it: after n ticks its angle is n times that speed.
C6_MoonRate == \A m \in Moons : moonRotation[m] = ticks * moonSpeeds[m[1]][m[2]]

C6_Witness ==
  /\ ticks = MaxTicks
  /\ focusedPlanet # NULL
  /\ timeScale < Scale
  /\ moonRotation[<<"Earth", 2>>] = MaxTicks * 20

C10_SingleChain ==
  [][/\ rafPending' <= 1
     /\ (IsTick(event') /\ event'.outcome = "ok") =>
          (frames' = frames + 1 /\ rafPending' = 1)
     /\ (IsTick(event') /\ event'.outcome # "ok") =>
          (frames' = frames /\ rafPending' = 0)
     /\ ~IsTick(event') => UNCHANGED <<frames, rafPending, ticks>>
     /\ (loaded /\ rafPending = 0) => (rafPending' = 0 /\ ticks' = ticks)]_vars

C10_Witness ==
  /\ loaded
  /\ rafPending = 0
  /\ frames >= 1
  /\ event.type = "click"
  /\ event.intersects # <<>>

====
